---- MODULE Spec2Model ----
(***************************************************************************)
(* A model of apex_launchtest/apex_runner.py: the _RunnerWorker that runs  *)
(* the pre-shutdown tests on a background thread while LaunchService.run   *)
(* occupies the main thread, and the ApexRunner that validates and drives  *)
(* it.                                                                     *)
(***************************************************************************)
EXTENDS Integers, Sequences, FiniteSets, TLC

\* ---------------------------------------------------------------- bounds
\* Number of processes the launch description starts.
NumProcs == 2
\* Number of stdout/stderr chunks the processes emit in one run.
MaxOutput == 1
\* Number of external interruptions (ctrl+c) during one run.
MaxInterrupts == 1
\* Longest list of test runs given to ApexRunner.
MaxRuns == 2
\* Most positional parameters of a test description function.
MaxPos == 2

\* ------------------------------------------------------ program constants
\* self._processes_launched.wait(timeout=15)
ReadyTimeout == 15
\* The number of positional arguments validate() binds: the lambda.
ValidateArgs == 1
\* print('#' * (len(process.process_name) + 21))
FooterPad == 21
\* The first byte value that bytes.decode('ascii') rejects.
AsciiLimit == 128

Procs == 1..NumProcs
ReturnCodes == {0, 1}
\* Byte strings a process may write: b'A' and one non-ASCII byte.
Texts == {<<65>>, <<200>>}
\* What unittest.TextTestRunner.run reports for a suite.
SuiteOutcomes == {"pass", "fail"}

VARIABLES
    pcMain,              \* where the main thread is in _RunnerWorker.run
    pcTest,              \* where test_runner_thread is in _run_test
    processes_launched,  \* self._processes_launched (threading.Event)
    tests_completed,     \* self._tests_completed (threading.Event)
    results,             \* self._results, <<>> while the attribute is unset
    testExc,             \* an exception is propagating through _run_test
    returned,            \* the tuple run() returned, <<>> before it returns
    raised,              \* the exception that left run(), "none" otherwise
    lsRunning,           \* LaunchService.run is executing its event loop
    alive,               \* processes the launch service is supervising
    exitedEarly,         \* history: the last process exited unprompted
                         \* before the pre-shutdown suite finished
    shutdownCalls,       \* calls of self._launch_service.shutdown()
    interrupts,          \* external interruptions of the launch service
    proc_info,           \* the store of ActiveProcInfoHandler
    proc_output,         \* the store of ActiveIoHandler
    retired,             \* the stores of the handlers made by earlier calls
                         \* of run(): retired[c] for those of call c
    waited,              \* time units a finished _processes_launched.wait took
    bound,               \* what run() has bound or registered so far
    injected,            \* the handler object each test suite and each
                         \* launch callback was given
    preRuns,             \* times the pre-shutdown suite was started
    postRuns,            \* times the post-shutdown suite was started
    printed,             \* lines printed by _print_process_output_summary
    calls,               \* calls of run() made on this _RunnerWorker
    threadStarts,        \* times self._test_tr.start() started a thread
    test_runs,           \* ApexRunner._test_runs: the description signatures
    validateOutcome,     \* how ApexRunner.validate() ended, "none" before
    runnerPc,            \* where ApexRunner.run() is
    workers,             \* indexes of the runs a _RunnerWorker was built for
    runnerReturned       \* what ApexRunner.run() returned, <<>> before

vars == <<pcMain, pcTest, processes_launched, tests_completed, results,
          testExc, returned, raised, lsRunning, alive, exitedEarly,
          shutdownCalls, interrupts, proc_info, proc_output, retired, waited,
          bound, injected, preRuns, postRuns, printed, calls, threadStarts, test_runs,
          validateOutcome, runnerPc, workers, runnerReturned>>

workerVars == <<pcMain, pcTest, processes_launched, tests_completed, results,
                testExc, returned, raised, lsRunning, alive, exitedEarly,
                shutdownCalls, interrupts, proc_info, proc_output, retired,
                waited, bound, injected, preRuns, postRuns, printed, calls,
                threadStarts>>

runnerVars == <<test_runs, validateOutcome, runnerPc, workers, runnerReturned>>

\* ------------------------------------------------------------- helpers
IsPrefix(s, t) == Len(s) <= Len(t) /\ SubSeq(t, 1, Len(s)) = s

\* ActiveProcInfoHandler.append and ActiveIoHandler.append: the stores are
\* append-only logs.
HandlerAppend(store, item) == Append(store, item)

\* FailResult()
FailResult == <<"FailResult">>
\* A TestResult of TextTestRunner.run on one of the two suites.
TestResult(suite, outcome) == <<"TestResult", suite, outcome>>

\* process.process_name, a string whose length differs per process.
ProcessName(p) == [i \in 1..p |-> "n"]

\* Line 66 has been executed: the description took the ready callback.
ReadyFnHandedOut == pcMain \notin {"unbuilt", "init"} \/ calls > 1

\* LaunchService.shutdown() was called or the service was interrupted.
ShutdownRequested == shutdownCalls + interrupts > 0

\* ------------------------------------------- _print_process_output_summary
\* bytes.decode('ascii') accepts the text.
IsAscii(text) == \A i \in 1..Len(text) : text[i] < AsciiLimit

\* proc_output[process.action]; no entry is the KeyError the code passes on.
OutputOf(output, action) == SelectSeq(output, LAMBDA io : io.action = action)

\* failed_procs = [proc for proc in proc_info if proc.returncode != 0]
FailedProcs(info) == SelectSeq(info, LAMBDA proc : proc.returncode # 0)

\* The loop over one process's output: a line per chunk, up to the first
\* chunk that decode('ascii') rejects.
RECURSIVE PrintIo(_)
PrintIo(ios) ==
    IF ios = <<>> THEN [lines |-> <<>>, error |-> "none"]
    ELSE IF ~IsAscii(Head(ios).text)
         THEN [lines |-> <<>>, error |-> "UnicodeDecodeError"]
         ELSE LET rest == PrintIo(Tail(ios))
              IN  [lines |-> << <<"io", Head(ios).text>> >> \o rest.lines,
                   error |-> rest.error]

\* The loop over failed_procs: name and exit code, header, output, footer.
RECURSIVE PrintBlocks(_, _)
PrintBlocks(procs, output) ==
    IF procs = <<>> THEN [lines |-> <<>>, error |-> "none"]
    ELSE LET process == Head(procs)
             name == ProcessName(process.action)
             top == << <<"exited", name, process.returncode>>,
                       <<"header", name>> >>
             io == PrintIo(OutputOf(output, process.action))
         IN  IF io.error # "none"
             THEN [lines |-> top \o io.lines, error |-> io.error]
             ELSE LET rest == PrintBlocks(Tail(procs), output)
                  IN  [lines |-> top \o io.lines
                                 \o << <<"footer", Len(name) + FooterPad>> >>
                                 \o rest.lines,
                       error |-> rest.error]

PrintProcessOutputSummary(info, output) ==
    PrintBlocks(FailedProcs(info), output)

\* ----------------------------------------------------- what the tests see
\* No handler object.
NoHandler == <<"none">>

\* Before run() has bound anything, no suite holds a handler and no callback
\* is registered.
NoInjection ==
    [pre_info |-> NoHandler, pre_output |-> NoHandler,
     post_info |-> NoHandler, post_output |-> NoHandler,
     on_exit |-> {}, on_io |-> {}]

\* Lines 71-72: proc_info = ActiveProcInfoHandler() and proc_output =
\* ActiveIoHandler(), the two handler objects a call of run() creates. Every
\* call creates its own, so a handler is named by the call that made it.
ActiveHandler(name, call) == <<"active", name, call>>

\* The attribute _proc_info_handler of ActiveProcInfoHandler and _io_handler
\* of ActiveIoHandler: the underlying handler the active one wraps.
InnerHandler(handler) == <<"inner", handler[2], handler[3]>>

\* The call of run() whose lines 71-72 made the handlers that the variables
\* proc_info and proc_output are the stores of.
HandlerCall == Len(retired) + 1

\* What an underlying handler holds: proc_info and proc_output are the
\* stores behind the handlers of the latest call, retired keeps those of the
\* calls before; any other handler holds nothing.
InnerContents(handler) ==
    IF handler[1] # "inner" \/ handler[2] \notin {"proc_info", "proc_output"}
    THEN <<>>
    ELSE IF handler[3] = HandlerCall
    THEN IF handler[2] = "proc_info" THEN proc_info ELSE proc_output
    ELSE IF handler[3] \in DOMAIN retired
    THEN IF handler[2] = "proc_info" THEN retired[handler[3]].proc_info
         ELSE retired[handler[3]].proc_output
    ELSE <<>>

\* What reading through a handler shows: an active handler answers from the
\* handler it wraps.
HandlerContents(handler) ==
    IF handler[1] = "active" THEN InnerContents(InnerHandler(handler))
    ELSE InnerContents(handler)

\* What the pre-shutdown tests see through the handlers they were given.
PreShutdownView ==
    <<HandlerContents(injected.pre_info), HandlerContents(injected.pre_output)>>

\* What the post-shutdown tests see through the handlers they were given.
PostShutdownView ==
    <<HandlerContents(injected.post_info),
      HandlerContents(injected.post_output)>>

\* ------------------------------------------------------------ initial state
InitWorker ==
    /\ pcMain = "init"
    /\ pcTest = "idle"
    /\ processes_launched = FALSE
    /\ tests_completed = FALSE
    /\ results = <<>>
    /\ testExc = FALSE
    /\ returned = <<>>
    /\ raised = "none"
    /\ lsRunning = FALSE
    /\ alive = {}
    /\ exitedEarly = FALSE
    /\ shutdownCalls = 0
    /\ interrupts = 0
    /\ proc_info = <<>>
    /\ proc_output = <<>>
    /\ retired = <<>>
    /\ waited = 0
    /\ bound = {}
    /\ injected = NoInjection
    /\ preRuns = 0
    /\ postRuns = 0
    /\ printed = <<>>
    /\ calls = 1
    /\ threadStarts = 0

\* A description function taking the ready callback as its one argument.
PlainSignature ==
    [npos |-> 1, ndef |-> 0, varargs |-> FALSE, kwonly |-> 0, varkw |-> FALSE]

\* A _RunnerWorker built by ApexRunner.run() for its one run, entering run().
Init ==
    /\ InitWorker
    /\ test_runs = <<PlainSignature>>
    /\ validateOutcome = "none"
    /\ runnerPc = "running"
    /\ workers = <<1>>
    /\ runnerReturned = <<>>

\* ------------------------------------------------- main thread: run()
\* Lines 66-96: the description is normalized with the ready callback, the
\* handlers are created and bound to the pre-shutdown tests. The description
\* function is called here, and it may call ready_fn itself before it returns.
BindPreShutdownTests ==
    /\ pcMain = "init"
    /\ \E sync \in BOOLEAN : processes_launched' = (processes_launched \/ sync)
    /\ retired' = IF calls > HandlerCall
                  THEN Append(retired, [proc_info |-> proc_info,
                                        proc_output |-> proc_output])
                  ELSE retired
    /\ proc_info' = <<>>
    /\ proc_output' = <<>>
    /\ bound' = bound \cup {"pre_shutdown_tests"}
    /\ injected' = [injected EXCEPT
                        !.pre_info = ActiveHandler("proc_info", calls),
                        !.pre_output = ActiveHandler("proc_output", calls)]
    /\ pcMain' = "bound_pre"
    /\ UNCHANGED <<pcTest, tests_completed, results, testExc, returned, raised,
                   lsRunning, alive, exitedEarly, shutdownCalls, interrupts,
                   waited, preRuns, postRuns, printed, calls, threadStarts,
                   runnerVars>>

\* Post-shutdown tests given handlers of their own, not those of lines 71-72.
BindPostShutdownTestsFresh ==
    /\ pcMain = "bound_pre"
    /\ bound' = bound \cup {"post_shutdown_tests"}
    /\ injected' = [injected EXCEPT
                        !.post_info =
                            InnerHandler(ActiveHandler("fresh_info", calls)),
                        !.post_output =
                            InnerHandler(ActiveHandler("fresh_output", calls))]
    /\ pcMain' = "bound_post"
    /\ UNCHANGED <<pcTest, processes_launched, tests_completed, results,
                   testExc, returned, raised, lsRunning, alive, exitedEarly,
                   shutdownCalls, interrupts, proc_info, proc_output, retired,
                   waited, preRuns, postRuns, printed, calls, threadStarts,
                   runnerVars>>

\* The post-shutdown tests left without their arguments.
BindPostShutdownTestsSkipped ==
    /\ pcMain = "bound_pre"
    /\ pcMain' = "bound_post"
    /\ UNCHANGED <<pcTest, processes_launched, tests_completed, results,
                   testExc, returned, raised, lsRunning, alive, exitedEarly,
                   shutdownCalls, interrupts, proc_info, proc_output, retired,
                   waited, bound, injected, preRuns, postRuns, printed, calls,
                   threadStarts, runnerVars>>

\* Lines 97-113: the post-shutdown tests get proc_info._proc_info_handler and
\* proc_output._io_handler.
BindPostShutdownTests ==
    /\ pcMain = "bound_pre"
    /\ bound' = bound \cup {"post_shutdown_tests"}
    /\ injected' = [injected EXCEPT
                        !.post_info =
                            InnerHandler(ActiveHandler("proc_info", calls)),
                        !.post_output =
                            InnerHandler(ActiveHandler("proc_output", calls))]
    /\ pcMain' = "bound_post"
    /\ UNCHANGED <<pcTest, processes_launched, tests_completed, results,
                   testExc, returned, raised, lsRunning, alive, exitedEarly,
                   shutdownCalls, interrupts, proc_info, proc_output, retired,
                   waited, preRuns, postRuns, printed, calls, threadStarts,
                   runnerVars>>

\* Lines 117-135: OnProcessExit and OnProcessIO are registered with the
\* append of proc_info and of proc_output. The callbacks an earlier call
\* registered stay registered, with the handlers of that call.
IncludeLaunchDescription ==
    /\ pcMain = "bound_post"
    /\ bound' = bound \cup {"on_exit", "on_io"}
    /\ injected' = [injected EXCEPT
                        !.on_exit = @ \cup {ActiveHandler("proc_info", calls)},
                        !.on_io = @ \cup {ActiveHandler("proc_output", calls)}]
    /\ pcMain' = "included"
    /\ UNCHANGED <<pcTest, processes_launched, tests_completed, results,
                   testExc, returned, raised, lsRunning, alive, exitedEarly,
                   shutdownCalls, interrupts, proc_info, proc_output, retired,
                   waited, preRuns, postRuns, printed, calls, threadStarts,
                   runnerVars>>

\* A thread object made for this call of run() and started.
StartTestThreadFresh ==
    /\ pcMain = "included"
    /\ pcTest' = "waiting"
    /\ threadStarts' = threadStarts + 1
    /\ pcMain' = "started"
    /\ UNCHANGED <<processes_launched, tests_completed, results, testExc,
                   returned, raised, lsRunning, alive, exitedEarly,
                   shutdownCalls, interrupts, proc_info, proc_output, retired,
                   waited, bound, injected, preRuns, postRuns, printed, calls,
                   runnerVars>>

\* Line 137: self._test_tr.start(). The thread object is the one made in
\* __init__ (lines 53-57); Thread.start raises RuntimeError when the thread
\* has been started before.
StartTestThread ==
    /\ pcMain = "included"
    /\ IF pcTest = "idle"
       THEN /\ pcTest' = "waiting"
            /\ threadStarts' = threadStarts + 1
            /\ pcMain' = "started"
            /\ UNCHANGED raised
       ELSE /\ raised' = "RuntimeError"
            /\ pcMain' = "raised"
            /\ UNCHANGED <<pcTest, threadStarts>>
    /\ UNCHANGED <<processes_launched, tests_completed, results, testExc,
                   returned, lsRunning, alive, exitedEarly, shutdownCalls,
                   interrupts, proc_info, proc_output, retired, waited, bound,
                   injected, preRuns, postRuns, printed, calls, runnerVars>>

\* A launch service started without waiting for it to return.
LaunchServiceRunDetached ==
    /\ pcMain = "started"
    /\ pcMain' = "check"
    /\ lsRunning' = TRUE
    /\ alive' = Procs
    /\ UNCHANGED <<pcTest, processes_launched, tests_completed, results,
                   testExc, returned, raised, exitedEarly, shutdownCalls,
                   interrupts, proc_info, proc_output, retired, waited, bound,
                   injected, preRuns, postRuns, printed, calls, threadStarts,
                   runnerVars>>

\* Line 138: self._launch_service.run() is entered and starts the processes.
LaunchServiceRun ==
    /\ pcMain = "started"
    /\ pcMain' = "ls_run"
    /\ lsRunning' = TRUE
    /\ alive' = Procs
    /\ UNCHANGED <<pcTest, processes_launched, tests_completed, results,
                   testExc, returned, raised, exitedEarly, shutdownCalls,
                   interrupts, proc_info, proc_output, retired, waited, bound,
                   injected, preRuns, postRuns, printed, calls, threadStarts,
                   runnerVars>>

\* Line 138: run() returns once no process is left, which a shutdown request
\* or an interruption brings about by terminating them.
LaunchServiceReturn ==
    /\ pcMain = "ls_run"
    /\ lsRunning
    /\ alive = {}
    /\ lsRunning' = FALSE
    /\ pcMain' = "check"
    /\ UNCHANGED <<pcTest, processes_launched, tests_completed, results,
                   testExc, returned, raised, alive, exitedEarly,
                   shutdownCalls, interrupts, proc_info, proc_output, retired,
                   waited, bound, injected, preRuns, postRuns, printed, calls,
                   threadStarts, runnerVars>>

\* A check that takes the tests to be complete whenever the service returns.
TestsCompletedCheckSkipped == TRUE

\* Line 140: self._tests_completed.wait(timeout=0)
TestsCompletedCheck == tests_completed

\* An early exit that keeps the pre-shutdown result in the pair.
EarlyExitValueKeepsResults == <<results, FailResult>>

\* Line 147: return FailResult(), FailResult()
EarlyExitValue == <<FailResult, FailResult>>

\* A return statement with the two results in the wrong order.
ReturnValueSwapped(inactive_results) == <<inactive_results, results>>

\* Line 154: return self._results, inactive_results
ReturnValue(inactive_results) == <<results, inactive_results>>

\* Lines 140-149: the check picks the early-exit branch or starts the
\* post-shutdown suite.
CheckTestsCompleted ==
    /\ pcMain = "check"
    /\ IF TestsCompletedCheck
       THEN /\ pcMain' = "post_running"
            /\ postRuns' = postRuns + 1
       ELSE /\ pcMain' = "summary"
            /\ UNCHANGED postRuns
    /\ UNCHANGED <<pcTest, processes_launched, tests_completed, results,
                   testExc, returned, raised, lsRunning, alive, exitedEarly,
                   shutdownCalls, interrupts, proc_info, proc_output, retired,
                   waited, bound, injected, preRuns, printed, calls,
                   threadStarts, runnerVars>>

\* Lines 143-147: the summary is printed and the failing pair returned, unless
\* decode('ascii') raises out of the summary and so out of run().
EarlyExit ==
    /\ pcMain = "summary"
    /\ LET s == PrintProcessOutputSummary(proc_info, proc_output)
       IN  /\ printed' = s.lines
           /\ IF s.error = "none"
              THEN /\ returned' = EarlyExitValue
                   /\ pcMain' = "done"
                   /\ UNCHANGED raised
              ELSE /\ raised' = s.error
                   /\ pcMain' = "raised"
                   /\ UNCHANGED returned
    /\ UNCHANGED <<pcTest, processes_launched, tests_completed, results,
                   testExc, lsRunning, alive, exitedEarly, shutdownCalls,
                   interrupts, proc_info, proc_output, retired, waited, bound,
                   injected, preRuns, postRuns, calls, threadStarts, runnerVars>>

\* Lines 149-154: the post-shutdown suite ends with a result and run() returns
\* self._results with it; reading an unset self._results is an AttributeError.
PostShutdownTestsReturn ==
    /\ pcMain = "post_running"
    /\ \E outcome \in SuiteOutcomes :
         IF results = <<>>
         THEN /\ raised' = "AttributeError"
              /\ pcMain' = "raised"
              /\ UNCHANGED returned
         ELSE /\ returned' = ReturnValue(TestResult("post", outcome))
              /\ pcMain' = "done"
              /\ UNCHANGED raised
    /\ UNCHANGED <<pcTest, processes_launched, tests_completed, results,
                   testExc, lsRunning, alive, exitedEarly, shutdownCalls,
                   interrupts, proc_info, proc_output, retired, waited, bound,
                   injected, preRuns, postRuns, printed, calls, threadStarts,
                   runnerVars>>

\* Lines 149-152: TextTestRunner.run raises on the main thread.
PostShutdownTestsRaise ==
    /\ pcMain = "post_running"
    /\ raised' = "RunnerError"
    /\ pcMain' = "raised"
    /\ UNCHANGED <<pcTest, processes_launched, tests_completed, results,
                   testExc, returned, lsRunning, alive, exitedEarly,
                   shutdownCalls, interrupts, proc_info, proc_output, retired,
                   waited, bound, injected, preRuns, postRuns, printed, calls,
                   threadStarts, runnerVars>>

\* A thread that sets the completion event when it starts the suite.
WaitLaunchedSignals ==
    /\ pcTest = "waiting"
    /\ processes_launched
    /\ tests_completed' = TRUE
    /\ pcTest' = "pre_running"
    /\ preRuns' = preRuns + 1
    /\ UNCHANGED <<pcMain, processes_launched, results, testExc, returned,
                   raised, lsRunning, alive, exitedEarly, shutdownCalls,
                   interrupts, proc_info, proc_output, retired, waited, bound,
                   injected, postRuns, printed, calls, threadStarts, runnerVars>>

\* A wait whose result is ignored: the suite starts when the wait ends.
WaitLaunchedUnchecked ==
    /\ pcTest = "waiting"
    /\ pcTest' = "pre_running"
    /\ preRuns' = preRuns + 1
    /\ UNCHANGED <<pcMain, processes_launched, tests_completed, results,
                   testExc, returned, raised, lsRunning, alive, exitedEarly,
                   shutdownCalls, interrupts, proc_info, proc_output, retired,
                   waited, bound, injected, postRuns, printed, calls,
                   threadStarts, runnerVars>>

\* --------------------------------------- test_runner_thread: _run_test()
\* Lines 160, 166-171: wait() returns True and the pre-shutdown suite starts.
WaitLaunched ==
    /\ pcTest = "waiting"
    /\ processes_launched
    /\ pcTest' = "pre_running"
    /\ preRuns' = preRuns + 1
    /\ UNCHANGED <<pcMain, processes_launched, tests_completed, results,
                   testExc, returned, raised, lsRunning, alive, exitedEarly,
                   shutdownCalls, interrupts, proc_info, proc_output, retired,
                   waited, bound, injected, postRuns, printed, calls,
                   threadStarts, runnerVars>>

\* Lines 160-162: the whole timeout elapses with the event never set, and
\* wait() returns False.
WaitTimeout ==
    /\ pcTest = "waiting"
    /\ ~processes_launched
    /\ waited' = ReadyTimeout
    /\ pcTest' = "timed_out"
    /\ UNCHANGED <<pcMain, processes_launched, tests_completed, results,
                   testExc, returned, raised, lsRunning, alive, exitedEarly,
                   shutdownCalls, interrupts, proc_info, proc_output, retired,
                   bound, injected, preRuns, postRuns, printed, calls,
                   threadStarts, runnerVars>>

\* A timeout path that sets the completion event before it returns.
TimeoutShutdownSignals ==
    /\ pcTest = "timed_out"
    /\ tests_completed' = TRUE
    /\ shutdownCalls' = shutdownCalls + 1
    /\ pcTest' = "done"
    /\ UNCHANGED <<pcMain, processes_launched, results, testExc, returned,
                   raised, lsRunning, alive, exitedEarly, interrupts,
                   proc_info, proc_output, retired, waited, bound, injected,
                   preRuns, postRuns, printed, calls, threadStarts, runnerVars>>

\* Lines 163-164: self._launch_service.shutdown(); return
TimeoutShutdown ==
    /\ pcTest = "timed_out"
    /\ shutdownCalls' = shutdownCalls + 1
    /\ pcTest' = "done"
    /\ UNCHANGED <<pcMain, processes_launched, tests_completed, results,
                   testExc, returned, raised, lsRunning, alive, exitedEarly,
                   interrupts, proc_info, proc_output, retired, waited, bound,
                   injected, preRuns, postRuns, printed, calls, threadStarts,
                   runnerVars>>

\* A runner whose return value is dropped instead of kept in self._results.
PreShutdownTestsReturnDropped ==
    /\ pcTest = "pre_running"
    /\ pcTest' = "finally"
    /\ UNCHANGED <<pcMain, processes_launched, tests_completed, results,
                   testExc, returned, raised, lsRunning, alive, exitedEarly,
                   shutdownCalls, interrupts, proc_info, proc_output, retired,
                   waited, bound, injected, preRuns, postRuns, printed, calls,
                   threadStarts, runnerVars>>

\* Lines 168-171: the runner returns and self._results is assigned.
PreShutdownTestsReturn ==
    /\ pcTest = "pre_running"
    /\ \E outcome \in SuiteOutcomes : results' = TestResult("pre", outcome)
    /\ pcTest' = "finally"
    /\ UNCHANGED <<pcMain, processes_launched, tests_completed, testExc,
                   returned, raised, lsRunning, alive, exitedEarly,
                   shutdownCalls, interrupts, proc_info, proc_output, retired,
                   waited, bound, injected, preRuns, postRuns, printed, calls,
                   threadStarts, runnerVars>>

\* Lines 166-173: the runner raises; self._results is not assigned and the
\* exception waits for the finally block.
PreShutdownTestsRaise ==
    /\ pcTest = "pre_running"
    /\ testExc' = TRUE
    /\ pcTest' = "finally"
    /\ UNCHANGED <<pcMain, processes_launched, tests_completed, results,
                   returned, raised, lsRunning, alive, exitedEarly,
                   shutdownCalls, interrupts, proc_info, proc_output, retired,
                   waited, bound, injected, preRuns, postRuns, printed, calls,
                   threadStarts, runnerVars>>

\* A finally block that goes on to the shutdown without setting the event.
SetTestsCompletedSkipped ==
    /\ pcTest = "finally"
    /\ pcTest' = "shutting_down"
    /\ UNCHANGED <<pcMain, processes_launched, tests_completed, results,
                   testExc, returned, raised, lsRunning, alive, exitedEarly,
                   shutdownCalls, interrupts, proc_info, proc_output, retired,
                   waited, bound, injected, preRuns, postRuns, printed, calls,
                   threadStarts, runnerVars>>

\* Line 174: self._tests_completed.set()
SetTestsCompleted ==
    /\ pcTest = "finally"
    /\ tests_completed' = TRUE
    /\ pcTest' = "shutting_down"
    /\ UNCHANGED <<pcMain, processes_launched, results, testExc, returned,
                   raised, lsRunning, alive, exitedEarly, shutdownCalls,
                   interrupts, proc_info, proc_output, retired, waited, bound,
                   injected, preRuns, postRuns, printed, calls, threadStarts,
                   runnerVars>>

\* A finally block that records a failure when its shutdown request is not
\* the first one.
FinallyShutdownOverwrites ==
    /\ pcTest = "shutting_down"
    /\ shutdownCalls' = shutdownCalls + 1
    /\ results' = IF ShutdownRequested THEN FailResult ELSE results
    /\ pcTest' = IF testExc THEN "raised" ELSE "done"
    /\ UNCHANGED <<pcMain, processes_launched, tests_completed, testExc,
                   returned, raised, lsRunning, alive, exitedEarly, interrupts,
                   proc_info, proc_output, retired, waited, bound, injected,
                   preRuns, postRuns, printed, calls, threadStarts, runnerVars>>

\* Line 175: self._launch_service.shutdown(), after which the thread ends,
\* by the pending exception if there is one.
FinallyShutdown ==
    /\ pcTest = "shutting_down"
    /\ shutdownCalls' = shutdownCalls + 1
    /\ pcTest' = IF testExc THEN "raised" ELSE "done"
    /\ UNCHANGED <<pcMain, processes_launched, tests_completed, results,
                   testExc, returned, raised, lsRunning, alive, exitedEarly,
                   interrupts, proc_info, proc_output, retired, waited, bound,
                   injected, preRuns, postRuns, printed, calls, threadStarts,
                   runnerVars>>

\* ------------------------------ the launch service, inside LaunchService.run
\* Line 67: the ready callback is called. The description holds the lambda
\* from line 66 on and whatever it hands it to may call it at any time, while
\* LaunchService.run executes or not; setting an event that is set changes
\* nothing.
ReadyFn ==
    /\ ReadyFnHandedOut
    /\ ~processes_launched
    /\ processes_launched' = TRUE
    /\ UNCHANGED <<pcMain, pcTest, tests_completed, results, testExc, returned,
                   raised, lsRunning, alive, exitedEarly, shutdownCalls,
                   interrupts, proc_info, proc_output, retired, waited, bound,
                   injected, preRuns, postRuns, printed, calls, threadStarts,
                   runnerVars>>

\* Lines 123-129: a registered callback appends the entry to the handler it
\* was built with; the store of a handler no callback holds is left alone.
AppendIfRegistered(registered, name, call, store, entry) ==
    IF ActiveHandler(name, call) \in registered
    THEN HandlerAppend(store, entry)
    ELSE store

\* Line 123: on_exit=lambda info, unused: proc_info.append(info)
OnProcessExit ==
    /\ lsRunning
    /\ "on_exit" \in bound
    /\ \E p \in alive, rc \in ReturnCodes :
         /\ alive' = alive \ {p}
         /\ proc_info' = AppendIfRegistered(
                              injected.on_exit, "proc_info", HandlerCall,
                              proc_info, [action |-> p, returncode |-> rc])
         /\ retired' = [c \in DOMAIN retired |->
                            [retired[c] EXCEPT !.proc_info =
                                AppendIfRegistered(
                                    injected.on_exit, "proc_info", c, @,
                                    [action |-> p, returncode |-> rc])]]
    /\ exitedEarly' = (\/ exitedEarly
                       \/ /\ alive' = {}
                          /\ ~ShutdownRequested
                          /\ pcTest \in {"waiting", "pre_running"})
    /\ UNCHANGED <<pcMain, pcTest, processes_launched, tests_completed,
                   results, testExc, returned, raised, lsRunning,
                   shutdownCalls, interrupts, proc_output, waited, bound,
                   injected, preRuns, postRuns, printed, calls, threadStarts,
                   runnerVars>>

\* Lines 126-129: on_stdout=proc_output.append, on_stderr=proc_output.append
OnProcessIO ==
    /\ lsRunning
    /\ "on_io" \in bound
    /\ Len(proc_output) < MaxOutput
    /\ \E p \in alive, text \in Texts :
         /\ proc_output' = AppendIfRegistered(
                                injected.on_io, "proc_output", HandlerCall,
                                proc_output, [action |-> p, text |-> text])
         /\ retired' = [c \in DOMAIN retired |->
                            [retired[c] EXCEPT !.proc_output =
                                AppendIfRegistered(
                                    injected.on_io, "proc_output", c, @,
                                    [action |-> p, text |-> text])]]
    /\ UNCHANGED <<pcMain, pcTest, processes_launched, tests_completed,
                   results, testExc, returned, raised, lsRunning, alive,
                   exitedEarly, shutdownCalls, interrupts, proc_info, waited,
                   bound, injected, preRuns, postRuns, printed, calls,
                   threadStarts, runnerVars>>

\* Line 138: the user interrupts the launch service (ctrl+c).
Interrupt ==
    /\ lsRunning
    /\ interrupts < MaxInterrupts
    /\ interrupts' = interrupts + 1
    /\ UNCHANGED <<pcMain, pcTest, processes_launched, tests_completed,
                   results, testExc, returned, raised, lsRunning, alive,
                   exitedEarly, shutdownCalls, proc_info, proc_output, retired,
                   waited, bound, injected, preRuns, postRuns, printed, calls,
                   threadStarts, runnerVars>>

\* ------------------------------------------------------------ specification
MainStep ==
    \/ BindPreShutdownTests
    \/ BindPostShutdownTests
    \/ IncludeLaunchDescription
    \/ StartTestThread
    \/ LaunchServiceRun
    \/ LaunchServiceReturn
    \/ CheckTestsCompleted
    \/ EarlyExit
    \/ PostShutdownTestsReturn
    \/ PostShutdownTestsRaise

TestStep ==
    \/ WaitLaunched
    \/ WaitTimeout
    \/ TimeoutShutdown
    \/ PreShutdownTestsReturn
    \/ PreShutdownTestsRaise
    \/ SetTestsCompleted
    \/ FinallyShutdown

LaunchStep ==
    \/ ReadyFn
    \/ OnProcessExit
    \/ OnProcessIO
    \/ Interrupt

Next == MainStep \/ TestStep \/ LaunchStep

Spec == Init /\ [][Next]_vars

\* Fairness: each thread keeps running, and the launch service terminates
\* its processes once a shutdown was requested.
ShutdownStep == ShutdownRequested /\ OnProcessExit

FairSpec ==
    /\ Spec
    /\ WF_vars(MainStep)
    /\ WF_vars(TestStep)
    /\ WF_vars(ShutdownStep)

\* ------------------------------------------------------ ApexRunner.validate
\* The signatures a test description function may have: positional
\* parameters (the last ndef of them with defaults), *args, required
\* keyword-only parameters, **kwargs.
Signatures ==
    { sig \in [npos : 0..MaxPos, ndef : 0..MaxPos, varargs : BOOLEAN,
               kwonly : 0..1, varkw : BOOLEAN] : sig.ndef <= sig.npos }

\* The number of parameters the function declares.
ParamCount(sig) ==
    sig.npos + (IF sig.varargs THEN 1 ELSE 0) + sig.kwonly
             + (IF sig.varkw THEN 1 ELSE 0)

\* inspect.getcallargs(func, *positional) with nargs positional arguments and
\* no keyword argument.
GetCallArgs(sig, nargs) ==
    IF nargs > sig.npos /\ ~sig.varargs THEN "TypeError"
    ELSE IF sig.npos - sig.ndef > nargs THEN "TypeError"
    ELSE IF sig.kwonly > 0 THEN "TypeError"
    ELSE "ok"

\* A check that binds no argument to the description function.
CheckRunNoArgument(sig) == GetCallArgs(sig, 0)

\* Line 226: inspect.getcallargs(run.test_description_function, lambda: None)
CheckRun(sig) == GetCallArgs(sig, ValidateArgs)

\* Lines 225-226: the loop over self._test_runs, left by the first exception.
RECURSIVE ValidateRuns(_)
ValidateRuns(runs) ==
    IF runs = <<>> THEN "ok"
    ELSE IF CheckRun(Head(runs)) # "ok" THEN CheckRun(Head(runs))
         ELSE ValidateRuns(Tail(runs))

\* ApexRunner.validate()
Validate ==
    /\ validateOutcome = "none"
    /\ validateOutcome' = ValidateRuns(test_runs)
    /\ UNCHANGED <<workerVars, test_runs, runnerPc, workers, runnerReturned>>

RunLists == UNION { [1..n -> Signatures] : n \in 0..MaxRuns }

\* ApexRunner.__init__ builds no _RunnerWorker: no worker exists, run() has
\* not been called on one, and nothing of a worker is set.
NoWorker ==
    /\ pcMain = "unbuilt"
    /\ calls = 0
    /\ pcTest = "idle"
    /\ processes_launched = FALSE
    /\ tests_completed = FALSE
    /\ results = <<>>
    /\ testExc = FALSE
    /\ returned = <<>>
    /\ raised = "none"
    /\ lsRunning = FALSE
    /\ alive = {}
    /\ exitedEarly = FALSE
    /\ shutdownCalls = 0
    /\ interrupts = 0
    /\ proc_info = <<>>
    /\ proc_output = <<>>
    /\ retired = <<>>
    /\ waited = 0
    /\ bound = {}
    /\ injected = NoInjection
    /\ preRuns = 0
    /\ postRuns = 0
    /\ printed = <<>>
    /\ threadStarts = 0

\* ApexRunner constructed with a list of runs, validate() not yet called.
InitValidate ==
    /\ NoWorker
    /\ test_runs \in RunLists
    /\ validateOutcome = "none"
    /\ runnerPc = "idle"
    /\ workers = <<>>
    /\ runnerReturned = <<>>

NextValidate == Validate

SpecValidate == InitValidate /\ [][NextValidate]_vars

\* ------------------------------------------- run() called a second time
\* Most calls of run() a caller makes on one _RunnerWorker.
MaxCalls == 2

\* Line 59: run() is entered again on a _RunnerWorker whose earlier call has
\* ended. The attributes set in __init__ and by the earlier call are kept.
RunAgain ==
    /\ pcMain \in {"done", "raised"}
    /\ calls < MaxCalls
    /\ calls' = calls + 1
    /\ pcMain' = "init"
    /\ returned' = <<>>
    /\ raised' = "none"
    /\ UNCHANGED <<pcTest, processes_launched, tests_completed, results,
                   testExc, lsRunning, alive, exitedEarly, shutdownCalls,
                   interrupts, proc_info, proc_output, retired, waited, bound,
                   injected, preRuns, postRuns, printed, threadStarts,
                   runnerVars>>

NextRerun == Next \/ RunAgain

SpecRerun == Init /\ [][NextRerun]_vars

\* ------------------------------------------------------ ApexRunner.run()
\* The value of a call that falls off the end of the function.
None == <<"None">>

\* Lists of run definitions given to ApexRunner.
RunnerLists == { [i \in 1..n |-> PlainSignature] : n \in 0..MaxRuns }

\* Lines 216-219: the run the loop body is executed for. The body returns, so
\* it is the first one.
RunnerPick(runs) == 1

\* Lines 209-219: ApexRunner.run() up to the call of worker.run().
RunnerRun ==
    /\ runnerPc = "idle"
    /\ IF test_runs = <<>>
       THEN /\ runnerPc' = "returned"
            /\ runnerReturned' = None
            /\ UNCHANGED <<workers, pcMain, calls>>
       ELSE /\ workers' = Append(workers, RunnerPick(test_runs))
            /\ runnerPc' = "running"
            /\ pcMain' = "init"
            /\ calls' = 1
            /\ UNCHANGED runnerReturned
    /\ UNCHANGED <<pcTest, processes_launched, tests_completed, results,
                   testExc, returned, raised, lsRunning, alive, exitedEarly,
                   shutdownCalls, interrupts, proc_info, proc_output, retired,
                   waited, bound, injected, preRuns, postRuns, printed,
                   threadStarts, test_runs, validateOutcome>>

\* Line 219: return worker.run(); an exception of worker.run() propagates.
RunnerReturn ==
    /\ runnerPc = "running"
    /\ pcMain \in {"done", "raised"}
    /\ IF pcMain = "done"
       THEN /\ runnerPc' = "returned"
            /\ runnerReturned' = returned
       ELSE /\ runnerPc' = "raised"
            /\ UNCHANGED runnerReturned
    /\ UNCHANGED <<pcMain, pcTest, processes_launched, tests_completed,
                   results, testExc, returned, raised, lsRunning, alive,
                   exitedEarly, shutdownCalls, interrupts, proc_info,
                   proc_output, retired, waited, bound, injected, preRuns,
                   postRuns, printed, calls, threadStarts, test_runs,
                   validateOutcome, workers>>

\* ApexRunner constructed with a list of runs, run() not yet called.
InitRunner ==
    /\ NoWorker
    /\ test_runs \in RunnerLists
    /\ validateOutcome = "none"
    /\ runnerPc = "idle"
    /\ workers = <<>>
    /\ runnerReturned = <<>>

NextRunner == RunnerRun \/ Next \/ RunnerReturn

SpecRunner == InitRunner /\ [][NextRunner]_vars

\* ================================================================ claims
FailPair == <<FailResult, FailResult>>

\* run() has ended, by a return or by an exception.
RunEnded == pcMain \in {"done", "raised"}

\* The readiness wait ran into its timeout.
TimedOut == waited = ReadyTimeout

\* _processes_launched was set before the wait of _run_test timed out.
ReadyInTime == processes_launched /\ ~TimedOut

\* C1: every execution of run() ends by returning a pair of two results;
\* none ends by an exception out of run() or with an element missing.
RunAlwaysReturnsPair ==
    RunEnded =>
        /\ pcMain = "done"
        /\ Len(returned) = 2
        /\ returned[1] # <<>>
        /\ returned[2] # <<>>

\* C2: when the readiness wait times out, the test thread requests shutdown,
\* neither suite is ever started and run() returns (FailResult, FailResult).
StartupTimeoutFails ==
    TimedOut =>
        /\ preRuns = 0
        /\ postRuns = 0
        /\ (pcTest = "done" => shutdownCalls = 1)
        /\ (RunEnded => pcMain = "done" /\ returned = FailPair)

\* C3 as stated: once all processes have exited by themselves before the
\* pre-shutdown suite finished, the post-shutdown suite never runs and the
\* pair run() returns is (FailResult, FailResult), whatever the interleaving.
EarlyDeathAlwaysFails ==
    exitedEarly =>
        /\ postRuns = 0
        /\ (pcMain = "done" => returned = FailPair)

\* C3 amended: once all processes have exited by themselves before the
\* pre-shutdown suite finished, the outcome follows the main thread's check:
\* with _tests_completed still unset the post-shutdown suite is never run
\* and the pair returned is (FailResult, FailResult); the post-shutdown suite
\* runs only when the test thread set _tests_completed before the check, and
\* the pair returned is then (self._results, post-shutdown result).
EarlyDeathFailsUnlessCompleted ==
    exitedEarly =>
        /\ (postRuns > 0 => tests_completed /\ preRuns = 1)
        /\ (pcMain = "summary" => postRuns = 0)
        /\ (pcMain = "done" /\ postRuns = 0 => returned = FailPair)
        /\ (pcMain = "done" /\ postRuns > 0 =>
               /\ results # <<>>
               /\ \E o \in SuiteOutcomes :
                    returned = <<results, TestResult("post", o)>>)

\* Witness of C3: the processes died during the pre-shutdown suite and run()
\* returned the failing pair without running the post-shutdown suite.
EarlyDeathWitness ==
    /\ exitedEarly
    /\ preRuns = 1
    /\ pcMain = "done"
    /\ postRuns = 0
    /\ returned = FailPair

\* C4 as stated: whenever readiness is signalled in time, both suites run and
\* run() returns (pre-shutdown result, post-shutdown result).
ReadyAlwaysRunsBothSuites ==
    ReadyInTime /\ pcMain = "done" =>
        /\ preRuns = 1
        /\ postRuns = 1
        /\ results # <<>>
        /\ \E o \in SuiteOutcomes :
             returned = <<results, TestResult("post", o)>>

\* C4 amended: whenever readiness is signalled in time, the test thread
\* starts the pre-shutdown suite instead of timing out; if the main thread
\* finds _tests_completed set, the post-shutdown suite runs after it and the
\* pair returned is (pre-shutdown result, post-shutdown result); if the
\* launch service returns before that, the post-shutdown suite does not run
\* and the pair returned is (FailResult, FailResult).
ReadyRunsSuitesUnlessEarlyExit ==
    ReadyInTime =>
        /\ pcTest # "timed_out"
        /\ (pcTest \notin {"idle", "waiting"} => preRuns = 1)
        /\ (postRuns > 0 => preRuns = 1 /\ tests_completed)
        /\ (pcMain = "done" /\ postRuns > 0 =>
               /\ postRuns = 1
               /\ results \in {TestResult("pre", o) : o \in SuiteOutcomes}
               /\ \E o \in SuiteOutcomes :
                    returned = <<results, TestResult("post", o)>>)
        /\ (pcMain = "done" /\ postRuns = 0 => returned = FailPair)

\* Witness of C4: readiness came in time, both suites ran and run() returned
\* their results in order.
ReadyBothSuitesWitness ==
    /\ ReadyInTime
    /\ pcMain = "done"
    /\ preRuns = 1
    /\ postRuns = 1
    /\ returned = <<TestResult("pre", "fail"), TestResult("post", "pass")>>

\* C5: the post-shutdown suite never executes while the launch service is
\* running or a process is alive, nor while the pre-shutdown suite executes.
PostNeverOverlaps ==
    pcMain = "post_running" =>
        /\ ~lsRunning
        /\ alive = {}
        /\ pcTest # "pre_running"

\* Witness of C5: the post-shutdown suite is executing after a pre-shutdown
\* suite ran and every process exited.
PostRunningWitness ==
    /\ pcMain = "post_running"
    /\ preRuns = 1
    /\ Len(proc_info) = NumProcs

\* C6: from the start of the post-shutdown suite until run() returns, no
\* callback appends to proc_info or proc_output.
StoresFrozenDuringPost ==
    [][postRuns > 0 =>
          /\ proc_info' = proc_info
          /\ proc_output' = proc_output]_vars

\* Witness of C6: the post-shutdown suite is executing over stores that hold
\* exit records and output.
PostOverFilledStoresWitness ==
    /\ pcMain = "post_running"
    /\ proc_info # <<>>
    /\ proc_output # <<>>

\* C7: the stores only grow, and what the pre-shutdown tests can see at any
\* point of their execution is a prefix of what the post-shutdown tests are
\* given afterwards.
PostViewExtendsPreView ==
    [][preRuns > 0 =>
          /\ IsPrefix(PreShutdownView[1], PostShutdownView[1]')
          /\ IsPrefix(PreShutdownView[2], PostShutdownView[2]')
          /\ IsPrefix(PostShutdownView[1], PostShutdownView[1]')
          /\ IsPrefix(PostShutdownView[2], PostShutdownView[2]')]_vars

\* Witness of C7: entries were appended before and while the pre-shutdown
\* suite ran, and the post-shutdown suite is executing over all of them.
PostSeesPreEntriesWitness ==
    /\ pcMain = "post_running"
    /\ preRuns = 1
    /\ ~exitedEarly
    /\ Len(PostShutdownView[1]) = NumProcs
    /\ Len(PostShutdownView[2]) = MaxOutput

\* A call of LaunchService.shutdown() that is not the first request, or
\* comes after LaunchService.run returned.
ExtraShutdown ==
    /\ shutdownCalls' = shutdownCalls + 1
    /\ ShutdownRequested \/ pcMain \notin {"started", "ls_run"}

\* C8: a repeated shutdown request, also one the test thread makes after
\* LaunchService.run has returned, raises nothing and leaves the results and
\* the returned pair as they are.
ExtraShutdownHarmless ==
    [][/\ ExtraShutdown =>
            /\ returned' = returned
            /\ results' = results
            /\ raised' = raised
            /\ pcMain' = pcMain
            /\ tests_completed' = tests_completed
            /\ pcTest' = (IF testExc THEN "raised" ELSE "done")
       /\ returned # <<>> => returned' = returned]_vars

\* Witness of C8: run() returned the failing pair after an interruption, and
\* the test thread then finished its suite and requested shutdown again.
ExtraShutdownWitness ==
    /\ pcMain = "done"
    /\ returned = FailPair
    /\ interrupts > 0
    /\ tests_completed
    /\ shutdownCalls = 1
    /\ pcTest = "done"

\* C9: under fair scheduling, with suites that terminate and a launch service
\* that returns after shutdown or the exit of all processes, run() eventually
\* returns.
RunEventuallyReturns == <>(pcMain = "done")

\* The signature has exactly one parameter, and a positional argument can be
\* bound to it.
OnePositionalParameter(sig) ==
    /\ ParamCount(sig) = 1
    /\ sig.npos = 1 \/ sig.varargs

\* validate() starts no process and no thread.
NothingStarted ==
    /\ pcMain = "unbuilt"
    /\ workers = <<>>
    /\ threadStarts = 0
    /\ pcTest = "idle"
    /\ ~lsRunning
    /\ alive = {}

\* C10 as stated: validate() raises for a list with a description function of
\* zero parameters, ends without error when every description function has
\* exactly one parameter, and starts nothing.
ValidateAcceptsAnyOneParameter ==
    /\ NothingStarted
    /\ validateOutcome # "none" =>
          /\ (\E i \in 1..Len(test_runs) : ParamCount(test_runs[i]) = 0)
                => validateOutcome = "TypeError"
          /\ (\A i \in 1..Len(test_runs) : ParamCount(test_runs[i]) = 1)
                => validateOutcome = "ok"

\* C10 amended: validate() raises (the TypeError of inspect.getcallargs) for
\* a list with a description function of zero parameters, ends without error
\* when every description function has exactly one parameter that takes a
\* positional argument, and starts nothing.
ValidateAcceptsOnePositional ==
    /\ NothingStarted
    /\ validateOutcome # "none" =>
          /\ (\E i \in 1..Len(test_runs) : ParamCount(test_runs[i]) = 0)
                => validateOutcome = "TypeError"
          /\ (\A i \in 1..Len(test_runs) :
                 OnePositionalParameter(test_runs[i]))
                => validateOutcome = "ok"

\* Witness of C10: validate() raised on a zero-parameter description function
\* that follows a well-formed one.
ValidateRejectsWitness ==
    /\ validateOutcome = "TypeError"
    /\ Len(test_runs) = 2
    /\ OnePositionalParameter(test_runs[1])
    /\ ParamCount(test_runs[2]) = 0

\* ------------------------------------------------------------------ C11
RunnerEnded == runnerPc \in {"returned", "raised"}

\* C11 as stated: for every list of run definitions, ApexRunner.run()
\* constructs and runs exactly one _RunnerWorker, for the first definition,
\* and returns the pair that worker's run() returned.
RunnerAlwaysRunsOneWorker ==
    RunnerEnded =>
        /\ workers = <<1>>
        /\ runnerPc = "returned"
        /\ runnerReturned = returned
        /\ Len(runnerReturned) = 2

\* ------------------------------------------------------------------ C12
\* run() ended on the early-exit path, after the summary was printed.
SummaryEmitted == pcMain \in {"done", "raised"} /\ postRuns = 0

\* The process p is recorded with a non-zero exit code.
RecordedFailed(p) ==
    \E i \in 1..Len(proc_info) :
        proc_info[i].action = p /\ proc_info[i].returncode # 0

\* How many of the printed lines satisfy the test.
LinesWhere(Test(_)) ==
    Cardinality({ i \in 1..Len(printed) : Test(printed[i]) })

\* The lines of a block of process p: exit line, header and footer.
BlockLinesOf(p) ==
    << LinesWhere(LAMBDA l : l[1] = "exited" /\ l[2] = ProcessName(p)),
       LinesWhere(LAMBDA l : l[1] = "header" /\ l[2] = ProcessName(p)),
       LinesWhere(LAMBDA l : l[1] = "footer"
                             /\ l[2] = Len(ProcessName(p)) + FooterPad) >>

\* C12 as stated: on the early-exit path, whatever the two accumulators
\* hold, the summary completes without error and has exactly one block
\* (exit line, header, footer) for every process recorded with a non-zero
\* exit code and none for a process that exited with zero.
SummaryOneBlockPerFailure ==
    SummaryEmitted =>
        /\ raised = "none"
        /\ \A p \in Procs :
               BlockLinesOf(p) = IF RecordedFailed(p) THEN <<1, 1, 1>>
                                 ELSE <<0, 0, 0>>

\* ------------------------------------------------------------------ C13
\* _run_test has ended, by return or by the exception of the runner.
TestThreadEnded == pcTest \in {"done", "raised"}

\* C13 as stated: the completion signal is set on every path by which
\* _run_test ends, the early return after the timeout included, and it is
\* set at most once: the one place that sets it finds it unset.
CompletionSetOnEveryExit ==
    /\ TestThreadEnded => tests_completed
    /\ pcTest = "finally" => ~tests_completed

\* C13: the completion signal is set at most once per run, in the finally
\* block, and so on every path that ends after the pre-shutdown suite was
\* started; on the early return after the timeout it is not set.
CompletionSetOnlyAfterSuite ==
    /\ tests_completed => pcTest \in {"shutting_down", "done", "raised"}
    /\ pcTest = "finally" => ~tests_completed
    /\ TestThreadEnded => (tests_completed <=> preRuns = 1)
    /\ TestThreadEnded => (tests_completed <=> ~TimedOut)

\* _run_test returned after the timeout and left the signal unset.
TimeoutLeavesSignalUnsetWitness ==
    /\ pcTest = "done"
    /\ TimedOut
    /\ ~tests_completed
    /\ pcMain = "done"

\* ------------------------------------------------------------------ C14
\* C14 as stated: whenever the secondary thread has requested the shutdown
\* of the launch service, the completion signal has already been set.
ShutdownOnlyAfterCompletion == shutdownCalls > 0 => tests_completed

\* C14: the secondary thread requests the shutdown either in the finally
\* block, with the completion signal already set, or on the timeout path,
\* with the signal unset; once it has requested the shutdown the value of
\* the signal no longer changes, so the check of the primary thread after
\* such a shutdown reads the final value.
ShutdownFixesCompletion ==
    [][ /\ shutdownCalls' > shutdownCalls =>
               IF tests_completed THEN pcTest = "shutting_down"
               ELSE pcTest = "timed_out"
        /\ shutdownCalls > 0 => tests_completed' = tests_completed ]_vars

\* The primary thread at its check after a shutdown requested by the
\* secondary thread in the finally block.
CheckAfterThreadShutdownWitness ==
    /\ pcMain = "check"
    /\ shutdownCalls = 1
    /\ interrupts = 0
    /\ tests_completed

\* ------------------------------------------------------------------ C15
\* C15 as stated: the check of the completion signal alone decides how
\* run() ends. If it found the signal set, the post-shutdown suite runs
\* exactly once and run() returns (pre-shutdown result, post-shutdown
\* result); if it found it unset, the summary is printed, the post-shutdown
\* suite does not run and run() returns (failing result, failing result).
CheckAloneDecides ==
    /\ postRuns <= 1
    /\ pcMain = "post_running" => postRuns = 1
    /\ pcMain = "summary" => postRuns = 0
    /\ RunEnded =>
           IF postRuns = 1
           THEN /\ pcMain = "done"
                /\ Len(returned) = 2
                /\ returned[1] = results
                /\ \E outcome \in SuiteOutcomes :
                       returned[2] = TestResult("post", outcome)
                /\ printed = <<>>
           ELSE /\ pcMain = "done"
                /\ returned = FailPair

\* ------------------------------------------------------------------ C16
\* C16: the pre-shutdown suite starts only in a state where the readiness
\* signal is set. The signal is set by a call of the readiness callback and
\* by nothing else, be it a later call or one the description function makes
\* while it is normalized, and it is never unset. The suite never starts in
\* a run whose readiness wait ended by its timeout.
SuiteStartsOnlyWhenReady ==
    [][ /\ preRuns' > preRuns => (processes_launched /\ ~TimedOut)
        /\ processes_launched' # processes_launched =>
               /\ ReadyFn \/ BindPreShutdownTests
               /\ processes_launched'
        /\ TimedOut' => preRuns' = 0 ]_vars

\* The suite is running, after the callback set the readiness signal.
SuiteRunningAfterReadyWitness ==
    /\ pcTest = "pre_running"
    /\ processes_launched
    /\ preRuns = 1

\* ------------------------------------------------------------------ C17
\* Both suites have their arguments and both hooks are registered.
BindingComplete ==
    bound = {"pre_shutdown_tests", "post_shutdown_tests", "on_exit", "on_io"}

\* The secondary thread has been started, the launch service runs or has
\* run, a suite has been started, or an exit or output callback has fired.
Launched ==
    \/ pcTest # "idle"
    \/ threadStarts > 0
    \/ pcMain \notin {"init", "bound_pre", "bound_post", "included"}
    \/ lsRunning
    \/ preRuns > 0
    \/ postRuns > 0
    \/ proc_info # <<>>
    \/ proc_output # <<>>

\* C17: binding precedes launching. Every step that ends with the secondary
\* thread started, the launch service running or returned, a suite started
\* or an exit or output record stored, ends with both suites bound and both
\* hooks attached; and whenever the readiness signal is set while the launch
\* service runs, which is when the described processes call the readiness
\* callback, binding is complete as well.
BindingPrecedesLaunch ==
    [][ /\ Launched' => BindingComplete'
        /\ (lsRunning /\ processes_launched' # processes_launched) =>
               BindingComplete ]_vars

\* The pre-shutdown suite runs and a callback has fired, all bound.
LaunchedAfterBindingWitness ==
    /\ BindingComplete
    /\ lsRunning
    /\ pcTest = "pre_running"
    /\ proc_info # <<>>
    /\ proc_output # <<>>

\* ------------------------------------------------------------------ C18
\* run() has passed the start of the thread at line 137, or was left there.
PastThreadStart ==
    pcMain \notin {"init", "bound_pre", "bound_post", "included"}

\* C18 as stated: every call of run() gets a secondary thread of its own, so
\* a further call of run() on the same _RunnerWorker starts a new thread
\* and proceeds like the first call.
RerunStartsFreshThread ==
    /\ PastThreadStart => threadStarts = calls
    /\ raised # "RuntimeError"

\* C18: a _RunnerWorker has one secondary thread, created when the worker
\* is constructed and started by the first call of run(); no second thread
\* is ever started. A further call of run() on the same worker returns
\* nothing: it raises RuntimeError where it starts the thread.
RerunRaisesAtThreadStart ==
    /\ threadStarts <= 1
    /\ PastThreadStart => threadStarts = 1
    /\ (calls > 1 /\ PastThreadStart) =>
           /\ pcMain = "raised"
           /\ raised = "RuntimeError"
           /\ returned = <<>>
    /\ raised = "RuntimeError" => calls > 1

\* A second call of run() ended by the RuntimeError of Thread.start.
RerunRaisedWitness ==
    /\ calls = 2
    /\ pcMain = "raised"
    /\ raised = "RuntimeError"
    /\ threadStarts = 1

\* ------------------------------------------------------------------ C19
\* C19: the assignment of the pre-shutdown result precedes the setting of
\* the completion signal, and the primary thread reads the result only
\* after it found the signal set. So when the suite runner returned, the
\* result is assigned whenever the primary thread reads it, and the pair it
\* returns holds that result; when the runner raised, the signal is set
\* all the same while the result was never assigned.
ResultAssignedBeforeRead ==
    /\ tests_completed => IF testExc THEN results = <<>> ELSE results # <<>>
    /\ pcMain = "post_running" => tests_completed
    /\ (pcMain = "done" /\ postRuns = 1) =>
           /\ ~testExc
           /\ results # <<>>
           /\ returned[1] = results

\* The primary thread is about to read a result the runner returned.
ReadsAssignedResultWitness ==
    /\ pcMain = "post_running"
    /\ tests_completed
    /\ ~testExc
    /\ results # <<>>

\* ------------------------------------------------------------------ C20
\* The secondary thread waits for readiness, runs the pre-shutdown suite or
\* is between the two.
TestThreadBusy == pcTest \in {"waiting", "pre_running", "timed_out", "finally"}

\* C20 as stated: once run() has returned its pair, the secondary thread is
\* no longer executing the pre-shutdown suite nor waiting for readiness.
ThreadQuietAfterReturn == pcMain = "done" => ~TestThreadBusy

\* C20: once run() has returned by the normal path, the secondary thread
\* has finished the pre-shutdown suite and set the completion signal. On
\* the early-exit path run() returns (failing, failing) without waiting for
\* the secondary thread, which may still wait for readiness or execute the
\* suite.
ThreadQuietAfterNormalReturn ==
    /\ (pcMain = "done" /\ postRuns = 1) =>
           /\ pcTest \in {"shutting_down", "done"}
           /\ tests_completed
    /\ (pcMain = "done" /\ TestThreadBusy) =>
           /\ postRuns = 0
           /\ returned = FailPair

\* run() returned both results and the secondary thread has ended.
NormalReturnThreadEndedWitness ==
    /\ pcMain = "done"
    /\ postRuns = 1
    /\ pcTest = "done"
    /\ Len(returned) = 2

====
